---- MODULE Spec2Model ----
(***************************************************************************)
(* Model of app.py: a Flask application that parses a comma-separated list *)
(* of 30 measurements, classifies it with a pickled model (or a dummy      *)
(* fallback), stores the submission in the sqlite table "predictions" and  *)
(* lists the stored rows.                                                   *)
(*                                                                         *)
(* Text is modelled as a sequence of one-character strings, so that        *)
(* str.strip, str.split, str.replace and float() are computed and not      *)
(* assumed.  A float is modelled as a decimal [m, e] = m * 10^-e in        *)
(* normal form (no trailing zero in the fraction), or as NaN.              *)
(***************************************************************************)
EXTENDS Integers, Sequences, FiniteSets, TLC

(***************************************************************************)
(* Bounds of the model.                                                    *)
(***************************************************************************)
\* number of requests the server handles concurrently
MaxReq == 2
\* number of requests the server handles one after the other
MaxHistory == 3
\* CURRENT_TIMESTAMP has a resolution of one second: seconds 0..MaxClock
MaxClock == 1

(***************************************************************************)
(* feature_names (app.py:17-26).  A name is a sequence of words and of     *)
(* " " separators; no word holds a space.                                  *)
(***************************************************************************)
Stat(pre, w) == <<pre, " ">> \o w

Measures ==
  << <<"radius">>, <<"texture">>, <<"perimeter">>, <<"area">>, <<"smoothness">>,
     <<"compactness">>, <<"concavity">>, <<"concave", " ", "points">>,
     <<"symmetry">>, <<"fractal", " ", "dimension">> >>

Suffixed(w) == w \o <<" ", "error">>

feature_names ==
  [i \in 1..10 |-> Stat("mean", Measures[i])]
    \o [i \in 1..10 |-> Suffixed(Measures[i])]
    \o [i \in 1..10 |-> Stat("worst", Measures[i])]

NumFeatures == Len(feature_names)

(***************************************************************************)
(* Text helpers: str.replace(' ', '_'), str.strip(), str.split(',').        *)
(***************************************************************************)
Replace(s, old, new) == [i \in 1..Len(s) |-> IF s[i] = old THEN new ELSE s[i]]

WhiteSpace == {" "}

RECURSIVE LStrip(_)
LStrip(s) ==
  IF s # <<>> /\ Head(s) \in WhiteSpace THEN LStrip(Tail(s)) ELSE s

RECURSIVE RStrip(_)
RStrip(s) ==
  IF s # <<>> /\ s[Len(s)] \in WhiteSpace
    THEN RStrip(SubSeq(s, 1, Len(s) - 1))
    ELSE s

Strip(s) == RStrip(LStrip(s))

\* position of the first c in s, 0 when there is none
RECURSIVE IndexFrom(_, _, _)
IndexFrom(s, c, i) ==
  IF i > Len(s) THEN 0
  ELSE IF s[i] = c THEN i
  ELSE IndexFrom(s, c, i + 1)

IndexOf(s, c) == IndexFrom(s, c, 1)

\* s.split(sep): "" gives one empty fragment, "a,,b" gives three fragments
RECURSIVE Split(_, _)
Split(s, sep) ==
  LET k == IndexOf(s, sep)
  IN IF k = 0 THEN <<s>>
     ELSE <<SubSeq(s, 1, k - 1)>> \o Split(SubSeq(s, k + 1, Len(s)), sep)

RECURSIVE Join(_, _)
Join(frags, sep) ==
  IF frags = <<>> THEN <<>>
  ELSE IF Len(frags) = 1 THEN frags[1]
  ELSE frags[1] \o <<sep>> \o Join(Tail(frags), sep)

(***************************************************************************)
(* float(text), for the part of Python's grammar the inputs use:           *)
(*   [sign] digits ["." digits*]  |  [sign] "." digits+  |  [sign] "nan"   *)
(* Anything else raises ValueError.                                        *)
(***************************************************************************)
DigitVal ==
  ("0" :> 0) @@ ("1" :> 1) @@ ("2" :> 2) @@ ("3" :> 3) @@ ("4" :> 4) @@
  ("5" :> 5) @@ ("6" :> 6) @@ ("7" :> 7) @@ ("8" :> 8) @@ ("9" :> 9)

IsDigit(c) == c \in DOMAIN DigitVal

AllDigits(s) == \A i \in 1..Len(s) : IsDigit(s[i])

RECURSIVE DigitsVal(_)
DigitsVal(s) ==
  IF s = <<>> THEN 0
  ELSE DigitsVal(SubSeq(s, 1, Len(s) - 1)) * 10 + DigitVal[s[Len(s)]]

NaN == [kind |-> "nan", m |-> 0, e |-> 0]

RECURSIVE Normalize(_, _)
Normalize(m, e) ==
  IF e > 0 /\ m % 10 = 0 THEN Normalize(m \div 10, e - 1)
  ELSE [kind |-> "num", m |-> m, e |-> e]

Negate(v) == IF v.kind = "nan" THEN v ELSE [v EXCEPT !.m = 0 - v.m]

ValueError == [ok |-> FALSE, v |-> NaN]

ParseUnsigned(s) ==
  LET d == IndexOf(s, ".")
      ip == IF d = 0 THEN s ELSE SubSeq(s, 1, d - 1)
      fp == IF d = 0 THEN <<>> ELSE SubSeq(s, d + 1, Len(s))
  IN IF s = <<"n", "a", "n">> THEN [ok |-> TRUE, v |-> NaN]
     ELSE IF AllDigits(ip) /\ AllDigits(fp) /\ Len(ip) + Len(fp) > 0
       THEN [ok |-> TRUE, v |-> Normalize(DigitsVal(ip \o fp), Len(fp))]
       ELSE ValueError

Float(text) ==
  LET s == Strip(text)
  IN IF s # <<>> /\ Head(s) \in {"-", "+"}
       THEN LET r == ParseUnsigned(Tail(s))
            IN IF ~r.ok THEN ValueError
               ELSE IF Head(s) = "-" THEN [ok |-> TRUE, v |-> Negate(r.v)]
               ELSE r
       ELSE ParseUnsigned(s)

(***************************************************************************)
(* The submitted forms.  A features field is built from a pool of number   *)
(* fragments; the edits produce the cases the handler distinguishes.       *)
(***************************************************************************)
FragPool ==
  << <<"1">>, <<" ", "2", ".", "5">>, <<"-", "3">>,
     <<"0", ".", "5", "0", " ">>, <<".", "7">>, <<"+", "4", ".">> >>

MkFrags(n, seed) ==
  [i \in 1..n |-> FragPool[((i + seed) % Len(FragPool)) + 1]]

BadFrag == <<"1", "x">>

NanFrag == <<"n", "a", "n">>

\* a stray separator in front, an empty and a blank fragment inside, and a
\* trailing separator
WithGaps(fr) ==
  <<<<>>>> \o SubSeq(fr, 1, 2) \o << <<>>, <<" ">> >>
    \o SubSeq(fr, 3, Len(fr)) \o <<<<>>>>

RawInput(n, seed, edit) ==
  LET fr == MkFrags(n, seed)
  IN Join(CASE edit = "gaps" -> WithGaps(fr)
            [] edit = "bad" -> [fr EXCEPT ![2] = BadFrag]
            [] edit = "nan" -> [fr EXCEPT ![2] = NanFrag]
            [] edit = "extra_bad" -> fr \o <<BadFrag>>
            [] OTHER -> fr, ",")

AnnName == <<" ", "a", "n", "n", " ">>

BlankName == <<" ", " ">>

\* request.form of a POST; has_features = FALSE is a form without the
\* 'features' field
Form(name, raw) == [username |-> name, features |-> raw, has_features |-> TRUE]

ValidForm == Form(AnnName, RawInput(NumFeatures, 0, "none"))

BlankNameForm == Form(BlankName, RawInput(NumFeatures, 1, "gaps"))

NanForm == Form(AnnName, RawInput(NumFeatures, 0, "nan"))

BadForm == Form(AnnName, RawInput(NumFeatures, 0, "bad"))

HistoryForms == {ValidForm, BlankNameForm, NanForm, BadForm}

Forms ==
  HistoryForms \cup
  { Form(BlankName, RawInput(NumFeatures, 0, "extra_bad")),
    Form(AnnName, RawInput(NumFeatures - 1, 0, "gaps")),
    Form(AnnName, RawInput(NumFeatures + 1, 0, "none")),
    Form(BlankName, RawInput(0, 0, "none")),
    [username |-> <<"b", "o">>, features |-> <<>>, has_features |-> FALSE] }

RawInputs == { f.features : f \in Forms }

NoForm == [username |-> <<>>, features |-> <<>>, has_features |-> FALSE]

(***************************************************************************)
(* Model loading (app.py:63-100).  The artifact is the file on disk.       *)
(***************************************************************************)
Artifacts == {"missing", "corrupt", "bare_model", "no_scaler", "bundle"}

\* DummyModel.predict and DummyScaler.transform
DummyModelPredict(X) == <<0>>

DummyScalerTransform(X) == X

DummyPair == [model |-> "dummy", scaler |-> "dummy"]

\* LoadArtifact with an except clause that rebinds the scaler alone
LoadKeepsBoundModel(a) ==
  IF a \in {"missing", "corrupt", "bare_model"} THEN DummyPair
  ELSE IF a = "no_scaler" THEN [model |-> "real", scaler |-> "dummy"]
  ELSE [model |-> "real", scaler |-> "real"]

\* the pair (model, scaler) the module-level try/except leaves behind:
\* os.path.exists fails, or pickle.load raises, or bundle['model'] raises on
\* an object that is no mapping, or bundle['scaler'] raises KeyError after
\* model was already bound; every except path rebinds both names
LoadArtifact(a) ==
  IF a = "missing" THEN DummyPair
  ELSE IF a = "corrupt" THEN DummyPair
  ELSE IF a = "bare_model" THEN DummyPair
  ELSE IF a = "no_scaler" THEN DummyPair
  ELSE [model |-> "real", scaler |-> "real"]

(***************************************************************************)
(* The classifier's view.  A real scaler and a real model are opaque: the  *)
(* outcome of a call is one of Outcomes.                                   *)
(***************************************************************************)
Shift(v) == IF v.kind = "nan" THEN v ELSE [v EXCEPT !.m = v.m + 1]

ScalerOutcomes(sc) == IF sc = "dummy" THEN {"same"} ELSE {"shift", "raise"}

ModelOutcomes(md) == IF md = "dummy" THEN {"dummy"} ELSE {"0", "1", "raise"}

\* scaler.transform([vals])
Transform(sc, X, out) ==
  IF sc = "dummy" THEN DummyScalerTransform(X)
  ELSE [i \in 1..Len(X) |-> [j \in 1..Len(X[i]) |-> Shift(X[i][j])]]

\* model.predict(X_scaled)
Predict(md, X, out) ==
  IF md = "dummy" THEN DummyModelPredict(X)
  ELSE IF out = "1" THEN <<1>> ELSE <<0>>

(***************************************************************************)
(* The handler's pure steps (app.py:106-139).                              *)
(***************************************************************************)
KeptFragments(raw) ==
  SelectSeq(Split(raw, ","), LAMBDA f : Strip(f) # <<>>)

\* ParseVals with a comprehension that drops the fragments float() rejects
ParseValsSkipping(raw) ==
  LET fr == SelectSeq(KeptFragments(raw), LAMBDA f : Float(Strip(f)).ok)
  IN [ok |-> TRUE, vals |-> [i \in 1..Len(fr) |-> Float(Strip(fr[i])).v]]

\* vals = [float(v.strip()) for v in raw_input.split(',') if v.strip() != '']
ParseVals(raw) ==
  LET fr == KeptFragments(raw)
  IN IF \E i \in 1..Len(fr) : ~Float(Strip(fr[i])).ok
       THEN [ok |-> FALSE, vals |-> <<>>]
       ELSE [ok |-> TRUE, vals |-> [i \in 1..Len(fr) |-> Float(Strip(fr[i])).v]]

\* the comprehension's result for each features field the forms carry
Parsed == [raw \in RawInputs |-> ParseVals(raw)]

\* CountOk with a lower bound for the equality
CountAtLeast(vals) == Len(vals) >= Len(feature_names)

\* if len(vals) != len(feature_names)
CountOk(vals) == Len(vals) = Len(feature_names)

LabelText(pred) == IF pred = 0 THEN "Benign" ELSE "Malignant"

NoFlash ==
  [category |-> "none", msg |-> "none", label |-> "none",
   expected |-> 0, got |-> 0, redirect |-> "none"]

Flash(cat, msg, label, redirect) ==
  [NoFlash EXCEPT !.category = cat, !.msg = msg, !.label = label,
                  !.redirect = redirect]

CountFlash(vals) ==
  [NoFlash EXCEPT !.category = "error", !.msg = "expected_got",
                  !.expected = Len(feature_names), !.got = Len(vals),
                  !.redirect = "index"]

ValueErrorFlash == Flash("error", "must_be_valid_numbers", "none", "index")

UnexpectedFlash == Flash("error", "unexpected_error", "none", "index")

PredictionErrorFlash == Flash("error", "error_making_prediction", "none", "index")

DatabaseErrorFlash(pred) ==
  Flash("warning", "error_saving_prediction_was", LabelText(pred), "index")

SuccessFlash(pred) == Flash("success", "prediction_for", LabelText(pred), "records")

RecordsErrorFlash == Flash("error", "error_loading_records", "none", "index")

(***************************************************************************)
(* The table (app.py:41-50) and the INSERT (app.py:125-129).               *)
(***************************************************************************)
SchemaCols == [i \in 1..Len(feature_names) |-> Replace(feature_names[i], " ", "_")]

InsertCols == [i \in 1..Len(feature_names) |-> Replace(feature_names[i], " ", "_")]

\* "?" * (2 + len(vals))
NumPlaceholders(vals) == 2 + Len(vals)

\* InsertParams with the classifier's view for the submitted values
InsertScaled(loc) == <<loc.username, loc.pred>> \o loc.X_scaled[1]

\* [username, pred, *vals]
InsertParams(loc) == <<loc.username, loc.pred>> \o loc.vals

Range(s) == { s[i] : i \in 1..Len(s) }

\* INSERT INTO predictions (username, prediction, cols) VALUES (?, ...):
\* sqlite rejects a statement whose value count differs from its column
\* count or that names a column the table lacks, binds NaN as NULL, and
\* rejects a NULL in a NOT NULL column.
SqlInsert(table, cols, nph, params, id, now) ==
  LET names == << <<"username">>, <<"prediction">> >> \o cols
      at(c) == params[CHOOSE k \in 1..Len(names) : names[k] = c]
      isNull(c) == c \notin Range(names) \/ (c \in Range(cols) /\ at(c).kind = "nan")
  IN IF \/ table = <<>>
        \/ nph # Len(names)
        \/ Len(params) # nph
        \/ \E c \in Range(cols) : c \notin Range(table)
        \/ \E c \in Range(table) \cup {<<"username">>, <<"prediction">>} : isNull(c)
       THEN [ok |-> FALSE, row |-> <<>>]
       ELSE [ok |-> TRUE,
             row |-> << [id |-> id,
                         username |-> at(<<"username">>),
                         timestamp |-> now,
                         prediction |-> at(<<"prediction">>),
                         features |-> [c \in Range(table) |-> at(c)]] >>]

\* CommitRow with the new row written over the last one
CommitOverwriting(rs, row) ==
  IF rs = <<>> THEN row ELSE SubSeq(rs, 1, Len(rs) - 1) \o row

\* the committed table after one more row
CommitRow(rs, row) == rs \o row

\* SELECT * FROM predictions ORDER BY timestamp DESC: every order of the
\* rows with non-increasing timestamps (rows of one second come in any order)
RECURSIVE Perms(_)
Perms(S) ==
  IF S = {} THEN {<<>>}
  ELSE UNION { { <<e>> \o p : p \in Perms(S \ {e}) } : e \in S }

\* OrderByTimestampDesc with the order reversed
OrderByTimestampAsc(rs) ==
  { p \in Perms(Range(rs)) :
      \A i \in 1..(Len(p) - 1) : p[i].timestamp <= p[i + 1].timestamp }

OrderByTimestampDesc(rs) ==
  { p \in Perms(Range(rs)) :
      \A i \in 1..(Len(p) - 1) : p[i].timestamp >= p[i + 1].timestamp }

(***************************************************************************)
(* State.                                                                  *)
(***************************************************************************)
VARIABLES
  boot,      \* position of the module-level code: init_db, load, serving, crashed
  artifact,  \* what MODEL_FILENAME holds on disk
  model,     \* the global model: "unset", "dummy", "real"
  scaler,    \* the global scaler
  initConn,  \* the connection of init_db: "none", "open", "closed"
  table,     \* columns of the table predictions after id, username,
             \* timestamp, prediction; <<>> while the table does not exist
  rows,      \* the committed rows, in rowid order
  writer,    \* the request whose connection holds sqlite's write lock, or 0
  clock,     \* the second CURRENT_TIMESTAMP reads
  pc,        \* per request: position of its handler
  form,      \* per request: request.form
  loc,       \* per request: the handler's locals username, vals, X_scaled, pred
  exc,       \* per request: the exception its handler caught, "none" if none
  conn,      \* per request: its connection: "none", "open", "closed"
  pending,   \* per request: the row of its open transaction, <<>> if none
  flash,     \* per request: the flashed message and the redirect
  listing,   \* per request: the rows GET /records rendered
  stored     \* history: per request, the id of the row it committed, 0 if none

vars ==
  <<boot, artifact, model, scaler, initConn, table, rows, writer, clock,
    pc, form, loc, exc, conn, pending, flash, listing, stored>>

NoLocals == [username |-> <<>>, vals |-> <<>>, X_scaled |-> <<>>, pred |-> 0]

\* the state when the interpreter starts app.py: no table, no row, the
\* artifact one of arts, and the requests of R not yet received
InitWith(R, arts) ==
  /\ boot = "init_db"
  /\ artifact \in arts
  /\ model = "unset"
  /\ scaler = "unset"
  /\ initConn = "none"
  /\ table = <<>>
  /\ rows = <<>>
  /\ writer = 0
  /\ clock = 0
  /\ pc = [r \in R |-> "idle"]
  /\ form = [r \in R |-> NoForm]
  /\ loc = [r \in R |-> NoLocals]
  /\ exc = [r \in R |-> "none"]
  /\ conn = [r \in R |-> "none"]
  /\ pending = [r \in R |-> <<>>]
  /\ flash = [r \in R |-> NoFlash]
  /\ listing = [r \in R |-> <<>>]
  /\ stored = [r \in R |-> 0]

Init == InitWith(1..MaxReq, Artifacts)

Req == DOMAIN pc

(***************************************************************************)
(* Module-level code.                                                      *)
(***************************************************************************)
\* init_db(): get_db_connection raises, or CREATE TABLE IF NOT EXISTS raises
\* (the except clause re-raises with the connection still open), or the
\* table is created, committed and the connection closed.
init_db ==
  /\ boot = "init_db"
  /\ \E out \in {"ok", "connect_error", "execute_error"} :
       /\ initConn' = CASE out = "ok" -> "closed"
                        [] out = "execute_error" -> "open"
                        [] OTHER -> "none"
       /\ table' = IF out = "ok" /\ table = <<>> THEN SchemaCols ELSE table
       /\ boot' = IF out = "ok" THEN "load" ELSE "crashed"
  /\ UNCHANGED <<artifact, model, scaler, rows, writer, clock,
                 pc, form, loc, exc, conn, pending, flash, listing, stored>>

\* the try/except around pickle.load
load_model ==
  /\ boot = "load"
  /\ model' = LoadArtifact(artifact).model
  /\ scaler' = LoadArtifact(artifact).scaler
  /\ boot' = "serving"
  /\ UNCHANGED <<artifact, initConn, table, rows, writer, clock,
                 pc, form, loc, exc, conn, pending, flash, listing, stored>>

\* a second of wall-clock time passes
Tick ==
  /\ clock < MaxClock
  /\ clock' = clock + 1
  /\ UNCHANGED <<boot, artifact, model, scaler, initConn, table, rows, writer,
                 pc, form, loc, exc, conn, pending, flash, listing, stored>>

(***************************************************************************)
(* POST / (index, app.py:104-148).                                         *)
(***************************************************************************)
\* AfterPrediction with a handler that goes on with the default label
AssumeBenign(e, l) ==
  [pc |-> "connect", flash |-> NoFlash, loc |-> l, exc |-> e]

\* the inner except clause (lines 118-121): a raise of transform or predict
\* ends the request, a label lets it go on to the database
AfterPrediction(e, l) ==
  IF e # "none"
    THEN [pc |-> "done", flash |-> PredictionErrorFlash, loc |-> l, exc |-> e]
    ELSE [pc |-> "connect", flash |-> NoFlash, loc |-> l, exc |-> e]

\* lines 106-121: strip the name, parse, check the count, classify
Validate(f, sc, md, so, mo) ==
  LET name == Strip(f.username)
      parsed == Parsed[f.features]
      vals == parsed.vals
      X == Transform(sc, <<vals>>, so)
      l0 == [NoLocals EXCEPT !.username = name]
      l1 == [l0 EXCEPT !.vals = vals]
  IN IF ~f.has_features
       THEN [pc |-> "done", flash |-> UnexpectedFlash, loc |-> l0,
             exc |-> "KeyError"]
     ELSE IF ~parsed.ok
       THEN [pc |-> "done", flash |-> ValueErrorFlash, loc |-> l0,
             exc |-> "ValueError"]
     ELSE IF ~CountOk(vals)
       THEN [pc |-> "done", flash |-> CountFlash(vals), loc |-> l1,
             exc |-> "none"]
     ELSE IF so = "raise"
       THEN AfterPrediction("transform", l1)
     ELSE IF mo = "raise"
       THEN AfterPrediction("predict", [l1 EXCEPT !.X_scaled = X])
     ELSE AfterPrediction("none",
            [l1 EXCEPT !.X_scaled = X, !.pred = Predict(md, X, mo)[1]])

index_post(r, F) ==
  /\ boot = "serving"
  /\ pc[r] = "idle"
  /\ \E f \in F, so \in ScalerOutcomes(scaler), mo \in ModelOutcomes(model) :
       LET v == Validate(f, scaler, model, so, mo)
       IN /\ form' = [form EXCEPT ![r] = f]
          /\ loc' = [loc EXCEPT ![r] = v.loc]
          /\ flash' = [flash EXCEPT ![r] = v.flash]
          /\ exc' = [exc EXCEPT ![r] = v.exc]
          /\ pc' = [pc EXCEPT ![r] = v.pc]
  /\ UNCHANGED <<boot, artifact, model, scaler, initConn, table, rows, writer,
                 clock, conn, pending, listing, stored>>

\* StoreFailed with the message of a stored prediction
StoreFailedSilently(l) == SuccessFlash(l.pred)

\* what the handler flashes when the "Store in database" block raised
StoreFailed(l) == DatabaseErrorFlash(l.pred)

\* what it flashes when the block completed
Stored(l) == SuccessFlash(l.pred)

\* with get_db_connection() as conn: the connection is opened, or
\* sqlite3.connect raises
index_connect(r) ==
  /\ pc[r] = "connect"
  /\ \E ok \in BOOLEAN :
       IF ok
         THEN /\ conn' = [conn EXCEPT ![r] = "open"]
              /\ pc' = [pc EXCEPT ![r] = "execute"]
              /\ UNCHANGED <<flash, exc>>
         ELSE /\ conn' = conn
              /\ pc' = [pc EXCEPT ![r] = "done"]
              /\ exc' = [exc EXCEPT ![r] = "connect_error"]
              /\ flash' = [flash EXCEPT ![r] = StoreFailed(loc[r])]
  /\ UNCHANGED <<boot, artifact, model, scaler, initConn, table, rows, writer,
                 clock, form, loc, pending, listing, stored>>

\* conn.execute(sql, params): the implicit BEGIN and the INSERT take the
\* write lock.  While another connection holds it the call waits, and
\* raises "database is locked" when the timeout expires.  When the statement
\* raises, Connection.__exit__ rolls back and the except clause flashes.
index_execute(r) ==
  /\ pc[r] = "execute"
  /\ LET ins == SqlInsert(table, InsertCols, NumPlaceholders(loc[r].vals),
                          InsertParams(loc[r]), Len(rows) + 1, clock)
     IN \E out \in {"run", "locked", "io_error"} :
          /\ out = "run" => writer = 0
          /\ out = "locked" => writer # 0
          /\ IF out = "run" /\ ins.ok
               THEN /\ writer' = r
                    /\ pending' = [pending EXCEPT ![r] = ins.row]
                    /\ pc' = [pc EXCEPT ![r] = "commit"]
                    /\ UNCHANGED <<flash, exc>>
               ELSE /\ UNCHANGED <<writer, pending>>
                    /\ pc' = [pc EXCEPT ![r] = "done"]
                    /\ exc' = [exc EXCEPT ![r] = IF out = "locked" THEN "locked"
                                                  ELSE "execute_error"]
                    /\ flash' = [flash EXCEPT ![r] = StoreFailed(loc[r])]
  /\ UNCHANGED <<boot, artifact, model, scaler, initConn, table, rows, clock,
                 form, loc, conn, listing, stored>>

\* conn.commit(), then Connection.__exit__ (a commit with nothing to do) and
\* the success flash; when commit raises, __exit__ rolls the row back.
index_commit(r) ==
  /\ pc[r] = "commit"
  /\ writer = r
  /\ \E ok \in BOOLEAN :
       /\ rows' = IF ok THEN CommitRow(rows, pending[r]) ELSE rows
       /\ stored' = [stored EXCEPT ![r] = IF ok THEN pending[r][1].id ELSE 0]
       /\ exc' = [exc EXCEPT ![r] = IF ok THEN "none" ELSE "commit_error"]
       /\ flash' = [flash EXCEPT ![r] = IF ok THEN Stored(loc[r])
                                              ELSE StoreFailed(loc[r])]
  /\ writer' = 0
  /\ pending' = [pending EXCEPT ![r] = <<>>]
  /\ pc' = [pc EXCEPT ![r] = "done"]
  /\ UNCHANGED <<boot, artifact, model, scaler, initConn, table, clock,
                 form, loc, conn, listing>>

(***************************************************************************)
(* GET /records (records, app.py:152-161).                                 *)
(***************************************************************************)
records(r) ==
  /\ boot = "serving"
  /\ pc[r] = "idle"
  /\ \E out \in {"ok", "connect_error", "select_error"} :
       /\ conn' = [conn EXCEPT ![r] = IF out = "connect_error" THEN "none"
                                                                ELSE "open"]
       /\ IF out = "ok" /\ table # <<>>
            THEN /\ \E res \in OrderByTimestampDesc(rows) :
                      listing' = [listing EXCEPT ![r] = res]
                 /\ pc' = [pc EXCEPT ![r] = "listed"]
                 /\ UNCHANGED <<flash, exc>>
            ELSE /\ listing' = listing
                 /\ exc' = [exc EXCEPT ![r] = IF out = "ok" THEN "select_error"
                                                            ELSE out]
                 /\ flash' = [flash EXCEPT ![r] = RecordsErrorFlash]
                 /\ pc' = [pc EXCEPT ![r] = "done"]
  /\ UNCHANGED <<boot, artifact, model, scaler, initConn, table, rows, writer,
                 clock, form, loc, pending, stored>>

(***************************************************************************)
(* A connection the handler returned without closing is closed when the    *)
(* runtime reclaims the object, at a moment the handler does not control.  *)
(***************************************************************************)
Finished(r) == pc[r] \in {"done", "listed"}

Reclaim(r) ==
  /\ Finished(r)
  /\ conn[r] = "open"
  /\ conn' = [conn EXCEPT ![r] = "closed"]
  /\ UNCHANGED <<boot, artifact, model, scaler, initConn, table, rows, writer,
                 clock, pc, form, loc, exc, pending, flash, listing, stored>>

\* the server receiving forms of F
Serve(F) ==
  \/ init_db
  \/ load_model
  \/ Tick
  \/ \E r \in Req : index_post(r, F)
  \/ \E r \in Req : index_connect(r)
  \/ \E r \in Req : index_execute(r)
  \/ \E r \in Req : index_commit(r)
  \/ \E r \in Req : records(r)
  \/ \E r \in Req : Reclaim(r)

Next == Serve(Forms)

Spec == Init /\ [][Next]_vars

(***************************************************************************)
(* The same server receiving its requests one after the other: request r   *)
(* is sent when the responses to the requests before it have arrived.      *)
(***************************************************************************)
Turn(r) == \A q \in Req : q < r => Finished(q)

InitHistory == InitWith(1..MaxHistory, {"missing", "bundle"})

NextHistory ==
  \/ init_db
  \/ load_model
  \/ Tick
  \/ \E r \in Req : Turn(r) /\ index_post(r, HistoryForms)
  \/ \E r \in Req : index_connect(r)
  \/ \E r \in Req : index_execute(r)
  \/ \E r \in Req : index_commit(r)
  \/ \E r \in Req : Turn(r) /\ records(r)

SpecHistory == InitHistory /\ [][NextHistory]_vars

(***************************************************************************)
(* Vocabulary of the properties, computed from the submitted text.         *)
(***************************************************************************)
\* the column the table derives from a feature name
ColumnOf(fn) == Replace(fn, " ", "_")

\* the features of a row, read back in the order of feature_names
FeatureVector(row) ==
  [i \in 1..Len(feature_names) |-> row.features[ColumnOf(feature_names[i])]]

\* the non-empty fragments of each form's features field
Fragments == [f \in Forms |-> KeptFragments(f.features)]

AllParse(f) == \A i \in 1..Len(Fragments[f]) : Float(Fragments[f][i]).ok

\* the numbers a form submits, in the order submitted
SubmittedVals ==
  [f \in Forms |->
     IF AllParse(f)
       THEN [i \in 1..Len(Fragments[f]) |-> Float(Fragments[f][i]).v]
       ELSE <<>>]

BadFragmentForms == { f \in Forms : f.has_features /\ ~AllParse(f) }

CountMismatchForms ==
  { f \in Forms : f.has_features /\ AllParse(f) /\ Len(Fragments[f]) # 30 }

ThirtyValueForms ==
  { f \in Forms : f.has_features /\ AllParse(f) /\ Len(Fragments[f]) = 30 }

Posted(r) == pc[r] # "idle" /\ form[r] \in Forms

Succeeded(r) == flash[r].category = "success"

\* every committed row is the row of one request that reported success
RowsAccounted ==
  /\ Len(rows) = Cardinality({ r \in Req : stored[r] # 0 })
  /\ \A r \in Req : stored[r] # 0 => Succeeded(r)
  /\ \A k \in 1..Len(rows) : \E r \in Req : stored[r] = rows[k].id

\* request r left nothing in the store
NothingWritten(r) ==
  /\ stored[r] = 0
  /\ pending[r] = <<>>
  /\ writer # r
  /\ RowsAccounted

(***************************************************************************)
(* C1: the row of a stored submission holds the numbers parsed from the    *)
(* submitted text, the i-th number in the column of the i-th feature name, *)
(* and every listing that shows the row shows the same vector, whatever    *)
(* the scaler returned.                                                    *)
(***************************************************************************)
C1_StoredValuesAreParsedValues ==
  \A q \in Req : stored[q] # 0 =>
    /\ \E row \in Range(rows) : row.id = stored[q]
    /\ \A row \in Range(rows) :
         row.id = stored[q] => FeatureVector(row) = SubmittedVals[form[q]]
    /\ \A r \in Req : \A k \in 1..Len(listing[r]) :
         listing[r][k].id = stored[q]
           => FeatureVector(listing[r][k]) = SubmittedVals[form[q]]

\* a stored submission whose scaled view differs from its values is listed
C1_Witness ==
  \E q \in Req, r \in Req :
    /\ stored[q] # 0
    /\ loc[q].X_scaled # <<loc[q].vals>>
    /\ \E k \in 1..Len(listing[r]) : listing[r][k].id = stored[q]

(***************************************************************************)
(* C2: a submission whose fragments all parse and whose count of non-empty *)
(* fragments is not 30 ends with the error that reports 30 and the count;  *)
(* the classifier is not called and the submission writes no row.          *)
(***************************************************************************)
C2_CountMismatchRejected ==
  \A r \in Req : Posted(r) /\ form[r] \in CountMismatchForms =>
    /\ pc[r] = "done"
    /\ flash[r].category = "error"
    /\ flash[r].msg = "expected_got"
    /\ flash[r].expected = 30
    /\ flash[r].got = Len(Fragments[form[r]])
    /\ flash[r].label = "none"
    /\ loc[r].X_scaled = <<>>
    /\ conn[r] = "none"
    /\ NothingWritten(r)

\* 29 values among stray separators were submitted and rejected
C2_Witness ==
  \E r \in Req :
    /\ Posted(r)
    /\ form[r] \in CountMismatchForms
    /\ Len(Split(form[r].features, ",")) > 30
    /\ flash[r].got = 29

(***************************************************************************)
(* C3: a submission with a non-empty fragment that is no number ends with  *)
(* the error "all feature fields must be valid numbers" and writes no row, *)
(* however many of its other fragments are numbers.                        *)
(***************************************************************************)
C3_NonNumericRejected ==
  \A r \in Req : Posted(r) /\ form[r] \in BadFragmentForms =>
    /\ pc[r] = "done"
    /\ flash[r].category = "error"
    /\ flash[r].msg = "must_be_valid_numbers"
    /\ flash[r].label = "none"
    /\ loc[r].X_scaled = <<>>
    /\ conn[r] = "none"
    /\ NothingWritten(r)

\* 30 numbers and one non-numeric fragment were submitted and rejected
C3_Witness ==
  \E r \in Req :
    /\ Posted(r)
    /\ form[r] \in BadFragmentForms
    /\ Len(SelectSeq(Fragments[form[r]], LAMBDA f : Float(f).ok)) = 30
    /\ flash[r].category = "error"

(***************************************************************************)
(* C4: no stored row has a submitter name that is empty after trimming.    *)
(***************************************************************************)
C4_NoEmptySubmitterStored ==
  \A k \in 1..Len(rows) : Strip(rows[k].username) # <<>>

(***************************************************************************)
(* C5: when transform or predict raises, the submission ends with an       *)
(* error, no label is reported and no row is written.                      *)
(***************************************************************************)
C5_PredictionFaultRejected ==
  \A r \in Req : exc[r] \in {"transform", "predict"} =>
    /\ pc[r] = "done"
    /\ flash[r].category = "error"
    /\ flash[r].msg = "error_making_prediction"
    /\ flash[r].label = "none"
    /\ conn[r] = "none"
    /\ NothingWritten(r)

\* predict raised on the scaled values of a submission that passed validation
C5_Witness ==
  \E r \in Req :
    /\ exc[r] = "predict"
    /\ form[r] \in ThirtyValueForms
    /\ loc[r].X_scaled # <<>>
    /\ pc[r] = "done"

(***************************************************************************)
(* C6: when the connection, the insert or the commit fails after a label   *)
(* was computed, the submission ends with the warning that carries the     *)
(* label and says it was not saved, never with the success message, and    *)
(* no row of it is in the store.                                           *)
(***************************************************************************)
C6_StorageFaultDegraded ==
  \A r \in Req :
    Posted(r) /\ exc[r] \in {"connect_error", "locked", "execute_error",
                             "commit_error"} =>
      /\ pc[r] = "done"
      /\ flash[r].category = "warning"
      /\ flash[r].msg = "error_saving_prediction_was"
      /\ flash[r].label = (IF loc[r].pred = 0 THEN "Benign" ELSE "Malignant")
      /\ flash[r].redirect = "index"
      /\ ~Succeeded(r)
      /\ NothingWritten(r)

\* the commit of a submission labelled malignant failed
C6_Witness ==
  \E r \in Req :
    /\ exc[r] = "commit_error"
    /\ flash[r].label = "Malignant"
    /\ flash[r].category = "warning"

(***************************************************************************)
(* C7 as stated: when every request is a valid submission that was         *)
(* classified and met no fault but the wait for the write lock, the store  *)
(* ends with one row per request.                                          *)
(***************************************************************************)
C7_AllValidStored ==
  (\A r \in Req : /\ Finished(r)
                  /\ form[r] = ValidForm
                  /\ exc[r] \in {"none", "locked"})
    => Len(rows) = Cardinality(Req)

(***************************************************************************)
(* C7 as amended: under any interleaving the number of stored rows equals  *)
(* the number of submissions that reported full success; each of them has  *)
(* exactly one row, with its name and label, and no other request has one. *)
(***************************************************************************)
C7_RowsEqualSuccesses ==
  /\ Len(rows) = Cardinality({ r \in Req : Succeeded(r) })
  /\ \A r \in Req : Succeeded(r) =>
       /\ Cardinality({ k \in 1..Len(rows) : rows[k].id = stored[r] }) = 1
       /\ \A k \in 1..Len(rows) : rows[k].id = stored[r] =>
            /\ rows[k].username = loc[r].username
            /\ rows[k].prediction = loc[r].pred
  /\ \A r \in Req : ~Succeeded(r) => stored[r] = 0
  /\ \A r \in Req, q \in Req :
       r # q /\ stored[r] # 0 => stored[r] # stored[q]

\* two submissions overlapped: one was stored, the other timed out on the
\* write lock
C7_Witness ==
  \E r \in Req, q \in Req :
    /\ Succeeded(r)
    /\ exc[q] = "locked"
    /\ Finished(q)
    /\ Len(rows) = 1

(***************************************************************************)
(* C8: no request has returned with its connection still open.             *)
(***************************************************************************)
C8_ConnectionsReleased ==
  \A r \in Req : Finished(r) => conn[r] # "open"

(***************************************************************************)
(* C9: a listing made after the requests before it holds exactly the rows  *)
(* of those that fully succeeded, one each, by non-increasing timestamp.   *)
(***************************************************************************)
C9_ListAllReturnsSuccesses ==
  \A r \in Req : pc[r] = "listed" =>
    LET ok == { q \in Req : q < r /\ Succeeded(q) }
        res == listing[r]
    IN /\ Len(res) = Cardinality(ok)
       /\ { res[k].id : k \in 1..Len(res) } = { stored[q] : q \in ok }
       /\ \A k \in 1..Len(res) : res[k] \in Range(rows)
       /\ \A k \in 1..(Len(res) - 1) : res[k].timestamp >= res[k + 1].timestamp

\* two submissions of different seconds were listed, the later one first
C9_Witness ==
  \E r \in Req :
    /\ pc[r] = "listed"
    /\ Len(listing[r]) = 2
    /\ listing[r][1].timestamp > listing[r][2].timestamp
    /\ listing[r][1].id > listing[r][2].id

(***************************************************************************)
(* C10: an artifact that is missing, does not deserialize or lacks a key   *)
(* leaves the dummy pair; loading never ends the process; with the dummy   *)
(* pair every submission of 30 numbers is labelled 0 on its unscaled       *)
(* values; and once the server serves, the pair never changes.             *)
(***************************************************************************)
C10_StubServesBenign ==
  /\ boot = "serving" /\ artifact # "bundle"
       => model = "dummy" /\ scaler = "dummy"
  /\ boot = "crashed" => model = "unset"
  /\ \A r \in Req :
       model = "dummy" /\ Finished(r) /\ form[r] \in ThirtyValueForms =>
         /\ loc[r].pred = 0
         /\ loc[r].X_scaled = <<loc[r].vals>>
         /\ flash[r].label = "Benign"

C10_PairChosenOnce ==
  boot = "serving" => /\ boot' = "serving"
                      /\ model' = model
                      /\ scaler' = scaler

\* C10: the stub serves benign in every state, and no step of a serving
\* server rebinds the pair
C10_StubOnLoadFailure == []C10_StubServesBenign /\ [][C10_PairChosenOnce]_vars

\* a submission was stored as benign by the pair a corrupt artifact left
C10_Witness ==
  /\ artifact = "corrupt"
  /\ \E r \in Req : Succeeded(r) /\ flash[r].label = "Benign"
====
